---- MODULE Spec2Model ----
(***************************************************************************)
(* AI voice detection API.                                                 *)
(*                                                                         *)
(* The module models core/audio_processor.py (the pitch aggregation of     *)
(* extract_audio_features, the rule engine classify_voice, the envelope    *)
(* built by process_voice) and the handler detect_voice of main.py.        *)
(*                                                                         *)
(* Numbers.  The program works on floats; the model works on integers in   *)
(* fixed units chosen so that every threshold of the code is an integer:   *)
(*   spectral_flatness_std, zcr_std, rms_std      thousandths (0.06 = 60)  *)
(*   pitch_*, spectral_bandwidth_std,                                      *)
(*   spectral_contrast_std, mfcc_var              units                    *)
(*   a confidence                                 a fraction <<num, den>>  *)
(*   confidenceScore (after round(., 2))          hundredths (0.55 = 55)   *)
(* Text.  A Python str is a sequence of one-character strings, so that     *)
(* lower(), the substring test and join() are computed, not assumed.       *)
(***************************************************************************)
EXTENDS Integers, Sequences, FiniteSets, TLC

VARIABLES
    pc,              \* what runs next: "extract", "classify", "serve", or ended
    audio,           \* what librosa makes of the audio bytes of the run
    features,        \* the feature dict handed to classify_voice
    ai_score,        \* classify_voice: ai_score at its return
    human_score,     \* classify_voice: human_score at its return
    reasons,         \* classify_voice: reasons at its return
    raw_confidence,  \* classify_voice: confidence before the clamp
    result,          \* classify_voice: the dict it returns
    request,         \* detect_voice: the request being answered
    coreCalled,      \* detect_voice: process_audio was invoked for request
    response,        \* detect_voice: the response to request
    previous         \* the response to the request before it

vars ==
    <<pc, audio, features, ai_score, human_score, reasons, raw_confidence,
      result, request, coreCalled, response,
      previous>>

\* Frames of a pitch track in the extraction model.
MaxFrames == 2

---------------------------------------------------------------------------
\* Text

\* "Synthetic spectral structure detected"
ReasonSyntheticStructure ==
  <<"S", "y", "n", "t", "h", "e", "t", "i", "c", " ", "s", "p", "e", "c", "t", "r", "a", "l", " ", "s", "t", "r", "u", "c", "t", "u", "r", "e", " ", "d", "e", "t", "e", "c", "t", "e", "d">>

\* "Low spectral variance"
ReasonLowVariance ==
  <<"L", "o", "w", " ", "s", "p", "e", "c", "t", "r", "a", "l", " ", "v", "a", "r", "i", "a", "n", "c", "e">>

\* "Natural spectral variation"
ReasonNaturalVariation ==
  <<"N", "a", "t", "u", "r", "a", "l", " ", "s", "p", "e", "c", "t", "r", "a", "l", " ", "v", "a", "r", "i", "a", "t", "i", "o", "n">>

\* "Unnatural pitch consistency"
ReasonUnnaturalPitch ==
  <<"U", "n", "n", "a", "t", "u", "r", "a", "l", " ", "p", "i", "t", "c", "h", " ", "c", "o", "n", "s", "i", "s", "t", "e", "n", "c", "y">>

\* "Wide pitch range"
ReasonWidePitchRange ==
  <<"W", "i", "d", "e", " ", "p", "i", "t", "c", "h", " ", "r", "a", "n", "g", "e">>

\* "Uniform rhythm patterns"
ReasonUniformRhythm ==
  <<"U", "n", "i", "f", "o", "r", "m", " ", "r", "h", "y", "t", "h", "m", " ", "p", "a", "t", "t", "e", "r", "n", "s">>

\* "Consistent energy levels"
ReasonConsistentEnergy ==
  <<"C", "o", "n", "s", "i", "s", "t", "e", "n", "t", " ", "e", "n", "e", "r", "g", "y", " ", "l", "e", "v", "e", "l", "s">>

\* "Low spectral diversity"
ReasonLowDiversity ==
  <<"L", "o", "w", " ", "s", "p", "e", "c", "t", "r", "a", "l", " ", "d", "i", "v", "e", "r", "s", "i", "t", "y">>

\* "Strong synthetic spectral signature"
ReasonStrongSignature ==
  <<"S", "t", "r", "o", "n", "g", " ", "s", "y", "n", "t", "h", "e", "t", "i", "c", " ", "s", "p", "e", "c", "t", "r", "a", "l", " ", "s", "i", "g", "n", "a", "t", "u", "r", "e">>

\* "Low dynamic range"
ReasonLowDynamicRange ==
  <<"L", "o", "w", " ", "d", "y", "n", "a", "m", "i", "c", " ", "r", "a", "n", "g", "e">>

\* "Dynamic spectral contrast"
ReasonDynamicContrast ==
  <<"D", "y", "n", "a", "m", "i", "c", " ", "s", "p", "e", "c", "t", "r", "a", "l", " ", "c", "o", "n", "t", "r", "a", "s", "t">>

\* "unnatural"
KwUnnatural ==
  <<"u", "n", "n", "a", "t", "u", "r", "a", "l">>

\* "low"
KwLow ==
  <<"l", "o", "w">>

\* "uniform"
KwUniform ==
  <<"u", "n", "i", "f", "o", "r", "m">>

\* "consistent"
KwConsistent ==
  <<"c", "o", "n", "s", "i", "s", "t", "e", "n", "t">>

\* "limited"
KwLimited ==
  <<"l", "i", "m", "i", "t", "e", "d">>

\* "natural"
KwNatural ==
  <<"n", "a", "t", "u", "r", "a", "l">>

\* "variation"
KwVariation ==
  <<"v", "a", "r", "i", "a", "t", "i", "o", "n">>

\* "rich"
KwRich ==
  <<"r", "i", "c", "h">>

\* "dynamic"
KwDynamic ==
  <<"d", "y", "n", "a", "m", "i", "c">>

\* "; "
Separator ==
  <<";", " ">>

\* "mp3"
FormatMp3 ==
  <<"m", "p", "3">>

\* "MP3"
FormatMp3Upper ==
  <<"M", "P", "3">>

\* "wav"
FormatWav ==
  <<"w", "a", "v">>

\* str.lower() on the letters A-Z (the literals of the program are ASCII).
ToLower ==
    [c \in {"A", "B", "C", "D", "E", "F", "G", "H", "I", "J", "K", "L", "M",
            "N", "O", "P", "Q", "R", "S", "T", "U", "V", "W", "X", "Y", "Z"} |->
        CASE c = "A" -> "a" [] c = "B" -> "b" [] c = "C" -> "c" [] c = "D" -> "d"
          [] c = "E" -> "e" [] c = "F" -> "f" [] c = "G" -> "g" [] c = "H" -> "h"
          [] c = "I" -> "i" [] c = "J" -> "j" [] c = "K" -> "k" [] c = "L" -> "l"
          [] c = "M" -> "m" [] c = "N" -> "n" [] c = "O" -> "o" [] c = "P" -> "p"
          [] c = "Q" -> "q" [] c = "R" -> "r" [] c = "S" -> "s" [] c = "T" -> "t"
          [] c = "U" -> "u" [] c = "V" -> "v" [] c = "W" -> "w" [] c = "X" -> "x"
          [] c = "Y" -> "y" [] c = "Z" -> "z"]

\* str.lower() on one character
LowerChar(c) == IF c \in DOMAIN ToLower THEN ToLower[c] ELSE c

\* r.lower()
Lower(s) == [i \in 1..Len(s) |-> LowerChar(s[i])]

\* kw in s
Contains(s, sub) ==
    \E i \in 0..(Len(s) - Len(sub)) : SubSeq(s, i + 1, i + Len(sub)) = sub

\* sep.join(parts)
RECURSIVE Join(_, _)
Join(sep, parts) ==
    IF parts = <<>> THEN <<>>
    ELSE IF Len(parts) = 1 THEN parts[1]
    ELSE parts[1] \o sep \o Join(sep, Tail(parts))

\* s[:n]
Take(s, n) == SubSeq(s, 1, IF Len(s) < n THEN Len(s) ELSE n)

---------------------------------------------------------------------------
\* Numbers

\* np.sum over a vector
RECURSIVE SumSeq(_)
SumSeq(s) == IF s = <<>> THEN 0 ELSE Head(s) + SumSeq(Tail(s))

\* a < b for fractions <<num, den>> with den > 0
Less(a, b) == a[1] * b[2] < b[1] * a[2]

\* max(a, b) of Python: b only when it is greater
MaxF(a, b) == IF Less(a, b) THEN b ELSE a

\* min(a, b) of Python: b only when it is smaller
MinF(a, b) == IF Less(b, a) THEN b ELSE a

\* round(c, 2), in hundredths.  Python rounds the double to the nearest
\* hundredth, ties to even; with denominators of at most 20 a tie is a
\* multiple of 1/8, which a double holds exactly.
Round2(c) ==
    LET q == (100 * c[1]) \div c[2]
        r == (100 * c[1]) % c[2]
    IN  IF 2 * r < c[2] THEN q
        ELSE IF 2 * r > c[2] THEN q + 1
        ELSE IF q % 2 = 0 THEN q ELSE q + 1

---------------------------------------------------------------------------
\* classify_voice

AI_KEYWORDS == <<KwUnnatural, KwLow, KwUniform, KwConsistent, KwLimited>>

HUMAN_KEYWORDS == <<KwNatural, KwVariation, KwRich, KwDynamic>>

InitialScores == [ai_score |-> 0, human_score |-> 0, reasons |-> <<>>]

\* Rule 1: Spectral Flatness
Rule1SpectralFlatness(f, s) ==
    IF f.spectral_flatness_std < 60
    THEN [s EXCEPT !.ai_score = @ + 4,
                   !.reasons = Append(@, ReasonSyntheticStructure)]
    ELSE IF f.spectral_flatness_std < 150
    THEN [s EXCEPT !.ai_score = @ + 2,
                   !.reasons = Append(@, ReasonLowVariance)]
    ELSE [s EXCEPT !.human_score = @ + 1,
                   !.reasons = Append(@, ReasonNaturalVariation)]

\* Rule 2: Pitch Consistency
Rule2PitchConsistency(f, s) ==
    IF f.pitch_std < 50
    THEN [s EXCEPT !.ai_score = @ + 3,
                   !.reasons = Append(@, ReasonUnnaturalPitch)]
    ELSE IF f.pitch_std < 200
    THEN [s EXCEPT !.ai_score = @ + 1]
    ELSE IF f.pitch_range > 3000
    THEN [s EXCEPT !.human_score = @ + 1 + (IF f.zcr_std > 100 THEN 1 ELSE 0),
                   !.reasons = Append(@, ReasonWidePitchRange)]
    ELSE s

\* Rule 3: Zero Crossing Rate Variation
Rule3ZeroCrossingRate(f, s) ==
    IF f.zcr_std < 30
    THEN [s EXCEPT !.ai_score = @ + 2,
                   !.reasons = Append(@, ReasonUniformRhythm)]
    ELSE [s EXCEPT !.human_score = @ + 1]

\* Rule 4: Energy Variation (RMS)
Rule4EnergyVariation(f, s) ==
    IF f.rms_std < 20
    THEN [s EXCEPT !.ai_score = @ + 1,
                   !.reasons = Append(@, ReasonConsistentEnergy)]
    ELSE [s EXCEPT !.human_score = @ + 1]

\* Rule 5: MFCC Variance
Rule5MfccVariance(f, s) ==
    LET mfcc_var_sum == SumSeq(f.mfcc_var)
    IN  IF mfcc_var_sum < 5
        THEN [s EXCEPT !.ai_score = @ + 2,
                       !.reasons = Append(@, ReasonLowDiversity)]
        ELSE [s EXCEPT !.human_score = @ + 2]

\* Rule 6: Spectral Bandwidth
Rule6SpectralBandwidth(f, s) ==
    IF f.spectral_bandwidth_std < 300
    THEN [s EXCEPT !.ai_score = @ + 1]
    ELSE s

\* The override left out.
OverrideDropped(f, s) == s

\* OVERRIDE: reasons.insert(0, ...)
Override(f, s) ==
    IF f.spectral_flatness_std < 60
    THEN [s EXCEPT !.ai_score = @ + 6,
                   !.reasons = <<ReasonStrongSignature>> \o @]
    ELSE s

\* Rule 7: Spectral Contrast
Rule7SpectralContrast(f, s) ==
    IF f.spectral_contrast_std < 5
    THEN [s EXCEPT !.ai_score = @ + 1,
                   !.reasons = Append(@, ReasonLowDynamicRange)]
    ELSE [s EXCEPT !.human_score = @ + 1,
                   !.reasons = Append(@, ReasonDynamicContrast)]

\* The rules in the order the function runs them.
Scores(f) ==
    Rule7SpectralContrast(f,
      Override(f,
        Rule6SpectralBandwidth(f,
          Rule5MfccVariance(f,
            Rule4EnergyVariation(f,
              Rule3ZeroCrossingRate(f,
                Rule2PitchConsistency(f,
                  Rule1SpectralFlatness(f, InitialScores))))))))

\* confidence before the clamp
RawConfidence(ai, human) ==
    LET total_score == ai + human
    IN  IF total_score > 0
        THEN <<IF ai > human THEN ai ELSE human, total_score>>
        ELSE <<1, 2>>

\* The clamp without its floor.
ClampConfidenceNoFloor(c) == MinF(<<95, 100>>, c)

\* confidence = max(0.55, min(0.95, confidence))
ClampConfidence(c) == MaxF(<<55, 100>>, MinF(<<95, 100>>, c))

\* The keyword test without lower().
MatchesAnyCaseSensitive(r, keywords) ==
    \E k \in 1..Len(keywords) : Contains(r, keywords[k])

\* any(kw in r.lower() for kw in keywords)
MatchesAny(r, keywords) ==
    \E k \in 1..Len(keywords) : Contains(Lower(r), keywords[k])

\* The explanation without the reasons[0] fallback.
ExplanationNoFallback(rs, keywords) ==
    LET Test(r) == MatchesAny(r, keywords)
    IN  [raised |-> "none",
         value |-> Join(Separator, Take(SelectSeq(rs, Test), 3))]

\* "; ".join(matched[:3]) if matched else reasons[0]; reasons[0] raises
\* IndexError on an empty list.
Explanation(rs, keywords) ==
    LET Test(r) == MatchesAny(r, keywords)
        matched == SelectSeq(rs, Test)
    IN  IF matched # <<>>
        THEN [raised |-> "none", value |-> Join(Separator, Take(matched, 3))]
        ELSE IF rs # <<>>
        THEN [raised |-> "none", value |-> rs[1]]
        ELSE [raised |-> "IndexError", value |-> <<>>]

\* The label with ties given to AI_GENERATED.
ClassificationTiesToAi(ai, human) ==
    IF ai >= human THEN "AI_GENERATED" ELSE "HUMAN"

\* The label: AI_GENERATED only on a strict majority.
Classification(ai, human) == IF ai > human THEN "AI_GENERATED" ELSE "HUMAN"

classify_voice(f) ==
    LET s == Scores(f)
        raw == RawConfidence(s.ai_score, s.human_score)
        confidence == ClampConfidence(raw)
        classification == Classification(s.ai_score, s.human_score)
        explanation ==
            Explanation(s.reasons,
                        IF classification = "AI_GENERATED"
                        THEN AI_KEYWORDS ELSE HUMAN_KEYWORDS)
    IN  [raised |-> explanation.raised,
         ai_score |-> s.ai_score,
         human_score |-> s.human_score,
         reasons |-> s.reasons,
         raw_confidence |-> raw,
         value |-> [classification |-> classification,
                    confidenceScore |-> Round2(confidence),
                    explanation |-> explanation.value]]

---------------------------------------------------------------------------
\* Feature vectors handed to classify_voice

\* mfcc_var: 13 variances, here with the first two coefficients set
MfccVar(a, b) == [i \in 1..13 |-> IF i = 1 THEN a ELSE IF i = 2 THEN b ELSE 0]

MfccVars == {MfccVar(2, 2), MfccVar(2, 3), MfccVar(25, 25)}

\* <<pitch_mean, pitch_std, pitch_range>>: a standard deviation is at most
\* half the range, and is 0 exactly when the range is 0
PitchStats ==
    {<<0, 0, 0>>, <<200, 50, 100>>, <<1700, 199, 3001>>, <<1700, 200, 3000>>,
     <<2000, 500, 4000>>}

FlatnessStds == {50, 60, 150}

ZcrStds == {29, 30, 100, 200}

RmsStds == {19, 20, 500}

BandwidthStds == {299, 300, 1000}

ContrastStds == {4, 5, 50}

FeatureVector(flat, pitch, zcr, rms, mfcc, bw, contrast) ==
    [spectral_flatness_std |-> flat,
     pitch_mean |-> pitch[1],
     pitch_std |-> pitch[2],
     pitch_range |-> pitch[3],
     zcr_std |-> zcr,
     rms_std |-> rms,
     mfcc_var |-> mfcc,
     spectral_bandwidth_std |-> bw,
     spectral_contrast_std |-> contrast]

FeatureVectors ==
    {FeatureVector(flat, pitch, zcr, rms, mfcc, bw, contrast) :
        flat \in FlatnessStds, pitch \in PitchStats, zcr \in ZcrStds,
        rms \in RmsStds, mfcc \in MfccVars, bw \in BandwidthStds,
        contrast \in ContrastStds}

\* Values of the variables a run has not written yet.
NoFeatures == FeatureVector(0, <<0, 0, 0>>, 0, 0, <<>>, 0, 0)

NoResult == [classification |-> "", confidenceScore |-> 0, explanation |-> <<>>]

NoStats == [spectral_flatness_std |-> 0, zcr_std |-> 0, rms_std |-> 0,
            mfcc_var |-> <<>>, spectral_bandwidth_std |-> 0,
            spectral_contrast_std |-> 0]

NoAudio == [size |-> 0, load |-> "ok", feature_calls |-> "ok",
            track |-> <<>>, stats |-> NoStats]

NoRequest == [x_api_key |-> [present |-> FALSE, value |-> ""],
              language |-> "", audioFormat |-> <<>>, base64_ok |-> FALSE]

NoResponse == [status_code |-> 0, body |-> [status |-> "none"]]

---------------------------------------------------------------------------
\* extract_audio_features
\*
\* librosa is outside the repository.  What it makes of the audio bytes is
\* the record audio:
\*   load           how librosa.load ends: "ok", or the class of the exception
\*                  it raises ("ParameterError", or "Exception" for any other)
\*   feature_calls  the same for the librosa.feature.* and piptrack calls
\*   track          piptrack's output, frame by frame: each frame is its
\*                  column of bins, a bin being [pitch, magnitude]
\*   stats          the statistics np.std, np.var take of the other features
\*   size           len(audio_bytes)
\* Pitches are whole Hz; np.mean and np.std are truncated to whole Hz, which
\* keeps every comparison with the integer thresholds of the rules.

\* magnitudes[:, t].argmax(): the first index of the maximum
ArgMax(frame) ==
    CHOOSE i \in 1..Len(frame) :
        /\ \A j \in 1..Len(frame) : frame[j].magnitude <= frame[i].magnitude
        /\ \A j \in 1..(i - 1) : frame[j].magnitude < frame[i].magnitude

\* pitch = pitches[index, t]
SelectedPitch(frame) == frame[ArgMax(frame)].pitch

\* The loop with every frame's pitch appended.
RECURSIVE PitchValuesUnfiltered(_)
PitchValuesUnfiltered(track) ==
    IF track = <<>> THEN <<>>
    ELSE <<SelectedPitch(Head(track))>> \o PitchValuesUnfiltered(Tail(track))

\* The loop over the frames: pitch_values
RECURSIVE PitchValues(_)
PitchValues(track) ==
    IF track = <<>> THEN <<>>
    ELSE LET pitch == SelectedPitch(Head(track))
         IN  (IF pitch > 0 THEN <<pitch>> ELSE <<>>) \o PitchValues(Tail(track))

\* np.max, np.min
RECURSIVE MaxOf(_)
MaxOf(v) ==
    IF Len(v) = 1 THEN v[1]
    ELSE LET m == MaxOf(Tail(v)) IN IF v[1] > m THEN v[1] ELSE m

RECURSIVE MinOf(_)
MinOf(v) ==
    IF Len(v) = 1 THEN v[1]
    ELSE LET m == MinOf(Tail(v)) IN IF v[1] < m THEN v[1] ELSE m

\* np.mean
Mean(v) == SumSeq(v) \div Len(v)

\* The largest r in lo..hi with r * r <= k
RECURSIVE ISqrtBetween(_, _, _)
ISqrtBetween(k, lo, hi) ==
    IF lo = hi THEN lo
    ELSE LET mid == (lo + hi + 1) \div 2
         IN  IF mid * mid <= k THEN ISqrtBetween(k, mid, hi)
             ELSE ISqrtBetween(k, lo, mid - 1)

\* np.std: the root of the mean squared deviation from the mean
Std(v) ==
    LET n == Len(v)
        squares == SumSeq([i \in 1..n |-> v[i] * v[i]])
        variance == (n * squares - SumSeq(v) * SumSeq(v)) \div (n * n)
    IN  ISqrtBetween(variance, 0, MaxOf(v))

\* 8. Pitch Variation
PitchFeatures(pitch_values) ==
    IF pitch_values # <<>>
    THEN <<Mean(pitch_values), Std(pitch_values),
           MaxOf(pitch_values) - MinOf(pitch_values)>>
    ELSE <<0, 0, 0>>

extract_audio_features(a) ==
    IF a.load # "ok" THEN [raised |-> a.load, value |-> NoFeatures]
    ELSE IF a.feature_calls # "ok"
    THEN [raised |-> a.feature_calls, value |-> NoFeatures]
    ELSE [raised |-> "none",
          value |-> FeatureVector(a.stats.spectral_flatness_std,
                                  PitchFeatures(PitchValues(a.track)),
                                  a.stats.zcr_std,
                                  a.stats.rms_std,
                                  a.stats.mfcc_var,
                                  a.stats.spectral_bandwidth_std,
                                  a.stats.spectral_contrast_std)]

Stats(flat, zcr, rms, mfcc, bw, contrast) ==
    [spectral_flatness_std |-> flat, zcr_std |-> zcr, rms_std |-> rms,
     mfcc_var |-> mfcc, spectral_bandwidth_std |-> bw,
     spectral_contrast_std |-> contrast]

\* The bins of a piptrack frame: no peak, or a peak with its magnitude
Bins ==
    {[pitch |-> 0, magnitude |-> 0], [pitch |-> 200, magnitude |-> 1],
     [pitch |-> 450, magnitude |-> 2], [pitch |-> 3500, magnitude |-> 2]}

Frames == {<<b1, b2>> : b1 \in Bins, b2 \in Bins}

Tracks == UNION {[1..n -> Frames] : n \in 0..MaxFrames}

ExtractStats ==
    {Stats(150, 200, 500, MfccVar(25, 25), 1000, 50),
     Stats(60, 29, 19, MfccVar(2, 2), 299, 4)}

Outcomes == {"ok", "ParameterError", "Exception"}

ExtractAudios ==
    {[size |-> 2048, load |-> "ok", feature_calls |-> "ok",
      track |-> track, stats |-> stats] :
        track \in Tracks, stats \in ExtractStats}
    \cup
    {[size |-> 2048, load |-> l, feature_calls |-> f,
      track |-> <<>>, stats |-> NoStats] :
        l \in Outcomes, f \in Outcomes}

InitExtract ==
    /\ pc = "extract"
    /\ audio \in ExtractAudios
    /\ features = NoFeatures
    /\ ai_score = 0
    /\ human_score = 0
    /\ reasons = <<>>
    /\ raw_confidence = <<0, 1>>
    /\ result = NoResult
    /\ request = NoRequest
    /\ coreCalled = FALSE
    /\ response = NoResponse
    /\ previous = NoResponse

ExtractAudioFeatures ==
    /\ pc = "extract"
    /\ \E e \in {extract_audio_features(audio)} :
           /\ features' = e.value
           /\ pc' = IF e.raised = "none" THEN "classify" ELSE e.raised
    /\ UNCHANGED <<audio, ai_score, human_score, reasons, raw_confidence,
                   result, request, coreCalled, response,
      previous>>

---------------------------------------------------------------------------
\* Classification of a feature vector

Init ==
    /\ pc = "classify"
    /\ features \in FeatureVectors
    /\ audio = NoAudio
    /\ ai_score = 0
    /\ human_score = 0
    /\ reasons = <<>>
    /\ raw_confidence = <<0, 1>>
    /\ result = NoResult
    /\ request = NoRequest
    /\ coreCalled = FALSE
    /\ response = NoResponse
    /\ previous = NoResponse

ClassifyVoice ==
    /\ pc = "classify"
    /\ \E c \in {classify_voice(features)} :
           /\ ai_score' = c.ai_score
           /\ human_score' = c.human_score
           /\ reasons' = c.reasons
           /\ raw_confidence' = c.raw_confidence
           /\ result' = c.value
           /\ pc' = IF c.raised = "none" THEN "classified" ELSE c.raised
    /\ UNCHANGED <<audio, features, request, coreCalled, response,
      previous>>

Next == ClassifyVoice

Spec == Init /\ [][Next]_vars

\* Extraction, then classification of what was extracted.
NextExtract == ExtractAudioFeatures \/ ClassifyVoice

SpecExtract == InitExtract /\ [][NextExtract]_vars

---------------------------------------------------------------------------
\* process_voice

\* The envelope of a failure; the message is <<prefix, str(e)>>
ErrorEnvelope(prefix, detail) ==
    [status |-> "error", message |-> <<prefix, detail>>]

\* The two except clauses, by the class of the exception
HandleException(raised) ==
    IF raised = "ParameterError"
    THEN ErrorEnvelope("Invalid audio format: ", raised)
    ELSE ErrorEnvelope("Processing failed: ", raised)

\* The success envelope with a fixed language.
SuccessEnvelopeFixedLanguage(language, r) ==
    [status |-> "success",
     language |-> "English",
     classification |-> r.classification,
     confidenceScore |-> r.confidenceScore,
     explanation |-> r.explanation]

\* {"status": "success", "language": language, **result}
SuccessEnvelope(language, r) ==
    [status |-> "success",
     language |-> language,
     classification |-> r.classification,
     confidenceScore |-> r.confidenceScore,
     explanation |-> r.explanation]

\* raised is what leaves the function: every Exception is caught in it
process_voice(a, language) ==
    LET e == extract_audio_features(a)
    IN  IF e.raised # "none"
        THEN [raised |-> "none", value |-> HandleException(e.raised)]
        ELSE LET c == classify_voice(e.value)
             IN  IF c.raised # "none"
                 THEN [raised |-> "none", value |-> HandleException(c.raised)]
                 ELSE [raised |-> "none",
                       value |-> SuccessEnvelope(language, c.value)]

---------------------------------------------------------------------------
\* detect_voice

VALID_LANGUAGES == {"Tamil", "English", "Hindi", "Malayalam", "Telugu"}

VALID_FORMATS == {FormatMp3}

\* os.getenv("API_KEY"), not empty
API_KEY == "configured-key"

MAX_FILE_SIZE == 10 * 1024 * 1024

\* A response that ends the handler before the core
Reject(code, message) ==
    [status_code |-> code,
     body |-> [status |-> "error", message |-> message],
     coreCalled |-> FALSE]

\* The format check without lower().
FormatAcceptedExactly(audioFormat) == audioFormat \in VALID_FORMATS

\* request.audioFormat.lower() in VALID_FORMATS
FormatAccepted(audioFormat) == Lower(audioFormat) \in VALID_FORMATS

\* The handler: r is the request, a the audio its base64 text decodes to
detect_voice(r, a) ==
    IF ~r.x_api_key.present \/ r.x_api_key.value = ""
       \/ r.x_api_key.value # API_KEY
    THEN Reject(401, "Invalid or missing API key")
    ELSE IF r.language \notin VALID_LANGUAGES
    THEN Reject(400, "Invalid language. Must be one of: Tamil, English, Hindi, Malayalam, Telugu")
    ELSE IF ~FormatAccepted(r.audioFormat)
    THEN Reject(400, "Invalid audio format. Must be only : mp3")
    ELSE IF ~r.base64_ok
    THEN Reject(400, "Invalid Base64 encoding for audio data")
    ELSE IF a.size > MAX_FILE_SIZE
    THEN Reject(400, "Audio file too large. Maximum size is 10MB")
    ELSE IF a.size < 1024
    THEN Reject(400, "Audio file too small. Please provide a valid audio file")
    ELSE LET p == process_voice(a, r.language)
         IN  IF p.raised # "none"
             THEN [status_code |-> 500,
                   body |-> [status |-> "error",
                             message |-> "Error processing audio: "],
                   coreCalled |-> TRUE]
             ELSE [status_code |-> 200, body |-> p.value, coreCalled |-> TRUE]

ApiKeys ==
    {[present |-> FALSE, value |-> ""], [present |-> TRUE, value |-> ""],
     [present |-> TRUE, value |-> "other-key"],
     [present |-> TRUE, value |-> API_KEY]}

ApiLanguages == {"Tamil", "Telugu", "tamil", "French"}

ApiFormats == {FormatMp3, FormatMp3Upper, FormatWav}

Requests ==
    [x_api_key : ApiKeys, language : ApiLanguages, audioFormat : ApiFormats,
     base64_ok : BOOLEAN]

ApiSizes == {1023, 1024, MAX_FILE_SIZE, MAX_FILE_SIZE + 1}

ApiTracks ==
    {<<>>,
     << <<[pitch |-> 200, magnitude |-> 1], [pitch |-> 3500, magnitude |-> 2]>>,
        <<[pitch |-> 200, magnitude |-> 1], [pitch |-> 0, magnitude |-> 0]>> >>}

\* <<load, feature_calls>> of an audio that librosa fails on
FailingOutcomes ==
    {<<"ParameterError", "ok">>, <<"Exception", "ok">>,
     <<"ok", "ParameterError">>, <<"ok", "Exception">>}

ApiAudios ==
    {[size |-> size, load |-> "ok", feature_calls |-> "ok",
      track |-> track, stats |-> stats] :
        size \in ApiSizes, track \in ApiTracks, stats \in ExtractStats}
    \cup
    {[size |-> size, load |-> o[1], feature_calls |-> o[2],
      track |-> <<>>, stats |-> NoStats] :
        size \in ApiSizes, o \in FailingOutcomes}

InitApi ==
    /\ pc = "serve"
    /\ audio \in ApiAudios
    /\ features = NoFeatures
    /\ ai_score = 0
    /\ human_score = 0
    /\ reasons = <<>>
    /\ raw_confidence = <<0, 1>>
    /\ result = NoResult
    /\ request = NoRequest
    /\ coreCalled = FALSE
    /\ response = NoResponse
    /\ previous = NoResponse

DetectVoice ==
    /\ pc = "serve"
    /\ \E r \in Requests :
        \E d \in {detect_voice(r, audio)} :
            /\ request' = r
            /\ coreCalled' = d.coreCalled
            /\ response' = [status_code |-> d.status_code, body |-> d.body]
            /\ previous' = response
    /\ UNCHANGED <<pc, audio, features, ai_score, human_score, reasons,
                   raw_confidence, result>>

NextApi == DetectVoice

SpecApi == InitApi /\ [][NextApi]_vars

---------------------------------------------------------------------------
\* Properties of classify_voice

Classified == pc = "classified"

\* The reason strings of the rule table.
RuleTableReasons ==
    {ReasonSyntheticStructure, ReasonLowVariance, ReasonNaturalVariation,
     ReasonUnnaturalPitch, ReasonWidePitchRange, ReasonUniformRhythm,
     ReasonConsistentEnergy, ReasonLowDiversity, ReasonStrongSignature,
     ReasonLowDynamicRange, ReasonDynamicContrast}

\* C1: the returned confidenceScore lies in [0.55, 0.95], before and after
\* rounding to 2 decimals; on ai_score + human_score = 0 the confidence is
\* 0.5 before the clamp and 0.55 after it.
C1_ConfidenceWithinBounds ==
    /\ RawConfidence(0, 0)[1] * 2 = RawConfidence(0, 0)[2]
    /\ Round2(ClampConfidence(RawConfidence(0, 0))) = 55
    /\ Classified =>
        /\ ~Less(ClampConfidence(raw_confidence), <<55, 100>>)
        /\ ~Less(<<95, 100>>, ClampConfidence(raw_confidence))
        /\ result.confidenceScore = Round2(ClampConfidence(raw_confidence))
        /\ result.confidenceScore \in 55..95
        /\ ai_score + human_score = 0 =>
            /\ raw_confidence[1] * 2 = raw_confidence[2]
            /\ result.confidenceScore = 55

\* C1 witness: a tie of the scores gives 0.5, which the clamp raises to 0.55.
C1_Witness ==
    /\ Classified
    /\ raw_confidence[1] * 2 = raw_confidence[2]
    /\ result.confidenceScore = 55

\* The rule table of the specification, score by score.
TableAiScore(f) ==
      (IF f.spectral_flatness_std < 60 THEN 4 ELSE 0)
    + (IF f.spectral_flatness_std >= 60 /\ f.spectral_flatness_std < 150
       THEN 2 ELSE 0)
    + (IF f.pitch_std < 50 THEN 3 ELSE 0)
    + (IF f.pitch_std >= 50 /\ f.pitch_std < 200 THEN 1 ELSE 0)
    + (IF f.zcr_std < 30 THEN 2 ELSE 0)
    + (IF f.rms_std < 20 THEN 1 ELSE 0)
    + (IF SumSeq(f.mfcc_var) < 5 THEN 2 ELSE 0)
    + (IF f.spectral_bandwidth_std < 300 THEN 1 ELSE 0)
    + (IF f.spectral_flatness_std < 60 THEN 6 ELSE 0)
    + (IF f.spectral_contrast_std < 5 THEN 1 ELSE 0)

TableHumanScore(f) ==
      (IF f.spectral_flatness_std >= 150 THEN 1 ELSE 0)
    + (IF f.pitch_std >= 200 /\ f.pitch_range > 3000 THEN 1 ELSE 0)
    + (IF f.pitch_std >= 200 /\ f.pitch_range > 3000 /\ f.zcr_std > 100
       THEN 1 ELSE 0)
    + (IF f.zcr_std >= 30 THEN 1 ELSE 0)
    + (IF f.rms_std >= 20 THEN 1 ELSE 0)
    + (IF SumSeq(f.mfcc_var) >= 5 THEN 2 ELSE 0)
    + (IF f.spectral_contrast_std >= 5 THEN 1 ELSE 0)

\* C2: the accumulated scores equal the sums of the rule table, and the label
\* is AI_GENERATED exactly when ai_score > human_score, HUMAN otherwise.
C2_ScoresFollowRuleTable ==
    Classified =>
        /\ ai_score = TableAiScore(features)
        /\ human_score = TableHumanScore(features)
        /\ result.classification \in {"AI_GENERATED", "HUMAN"}
        /\ result.classification = "AI_GENERATED" <=> ai_score > human_score

\* C2 witness: equal scores, labelled HUMAN.
C2_Witness ==
    /\ Classified
    /\ ai_score = human_score
    /\ result.classification = "HUMAN"

\* The literal input of the override test: every feature but the flatness
\* favours HUMAN.
OverrideTestInput ==
    FeatureVector(50, <<2000, 500, 4000>>, 200, 500, MfccVar(25, 25), 1000, 50)

\* C3: with spectral_flatness_std < 0.06 the AI score is at least 10 and the
\* label is AI_GENERATED whatever the other features; the literal test input
\* scores 10 against 7.
C3_OverrideDominates ==
    Classified =>
        /\ features.spectral_flatness_std < 60 =>
            /\ ai_score >= 10
            /\ result.classification = "AI_GENERATED"
        /\ features = OverrideTestInput =>
            /\ ai_score = 10
            /\ human_score = 7
            /\ result.classification = "AI_GENERATED"

\* C3 witness: the literal test input, classified.
C3_Witness ==
    /\ Classified
    /\ features = OverrideTestInput
    /\ ai_score = 10
    /\ human_score = 7

\* C4: classify_voice never fails on reasons[0]; the explanation is not empty
\* and contains a reason string of the rule table.
C4_ExplanationNeverEmpty ==
    /\ pc \in {"classify", "classified"}
    /\ Classified =>
        /\ reasons # <<>>
        /\ result.explanation # <<>>
        /\ \E r \in RuleTableReasons : Contains(result.explanation, r)

\* The keywords of a label, as the specification lists them.
KeywordsOf(label) ==
    IF label = "AI_GENERATED"
    THEN {KwUnnatural, KwLow, KwUniform, KwConsistent, KwLimited}
    ELSE {KwNatural, KwVariation, KwRich, KwDynamic}

\* The positions of the reasons that contain a keyword of the label.
MatchingPositions(rs, label) ==
    {i \in 1..Len(rs) :
        \E kw \in KeywordsOf(label) : Contains(Lower(rs[i]), kw)}

\* The j-th smallest element of a set of numbers.
NthSmallest(S, j) ==
    CHOOSE x \in S : Cardinality({y \in S : y < x}) = j - 1

\* C4 witness: no reason matches a keyword and the fallback is taken.
C4_Witness ==
    /\ Classified
    /\ MatchingPositions(reasons, result.classification) = {}
    /\ result.explanation = reasons[1]

\* C8: the explanation is the first 3 (at most) reasons that contain a keyword
\* of the label, compared in lower case, in list order, joined with "; ", and
\* the first reason of the list when none matches; the override's reason is
\* the first of the list.
C8_ExplanationFromKeywords ==
    Classified =>
        LET M == MatchingPositions(reasons, result.classification)
            p(j) == reasons[NthSmallest(M, j)]
        IN  /\ features.spectral_flatness_std < 60 =>
                reasons[1] = ReasonStrongSignature
            /\ Cardinality(M) = 0 => result.explanation = reasons[1]
            /\ Cardinality(M) = 1 => result.explanation = p(1)
            /\ Cardinality(M) = 2 =>
                result.explanation = p(1) \o <<";", " ">> \o p(2)
            /\ Cardinality(M) >= 3 =>
                result.explanation =
                    p(1) \o <<";", " ">> \o p(2) \o <<";", " ">> \o p(3)

\* C8 witness: more than 3 reasons match, among them one that matches only in
\* lower case.
C8_Witness ==
    /\ Classified
    /\ Cardinality(MatchingPositions(reasons, result.classification)) > 3
    /\ Contains(result.explanation, ReasonLowVariance)

\* The reasons appended where ai_score is incremented.
AiReasons ==
    {ReasonSyntheticStructure, ReasonLowVariance, ReasonUnnaturalPitch,
     ReasonUniformRhythm, ReasonConsistentEnergy, ReasonLowDiversity,
     ReasonStrongSignature, ReasonLowDynamicRange}

\* The reasons appended where human_score is incremented.
HumanReasons ==
    {ReasonNaturalVariation, ReasonWidePitchRange, ReasonDynamicContrast}

\* C10: the explanation cites only reasons that support the label: reasons of
\* human_score branches for HUMAN, of ai_score branches for AI_GENERATED.
C10_ExplanationSupportsLabel ==
    Classified =>
        \A r \in RuleTableReasons :
            Contains(result.explanation, r) =>
                r \in (IF result.classification = "AI_GENERATED"
                       THEN AiReasons ELSE HumanReasons)

---------------------------------------------------------------------------
\* Properties of extract_audio_features

Extracted == pc \in {"classify", "classified"}

\* The selected pitches of the frames that contribute a value.
ContributedPitches ==
    {SelectedPitch(audio.track[t]) :
        t \in {u \in 1..Len(audio.track) : SelectedPitch(audio.track[u]) > 0}}

\* C9: only frames with a strictly positive selected pitch contribute; when
\* none does, pitch_mean, pitch_std and pitch_range are 0 and nothing is
\* raised; otherwise pitch_range is the largest minus the smallest
\* contributed value, and is not negative.
C9_PitchAggregation ==
    /\ (audio.load = "ok" /\ audio.feature_calls = "ok") =>
          pc \in {"extract", "classify", "classified"}
    /\ Extracted =>
        /\ ContributedPitches = {} =>
            /\ features.pitch_mean = 0
            /\ features.pitch_std = 0
            /\ features.pitch_range = 0
        /\ ContributedPitches # {} =>
            /\ \E hi \in ContributedPitches, lo \in ContributedPitches :
                /\ \A x \in ContributedPitches : lo <= x /\ x <= hi
                /\ features.pitch_range = hi - lo
            /\ features.pitch_range >= 0

\* C9 witness: frames were tracked, none with a positive pitch, and the
\* features were extracted with the three defaults.
C9_Witness ==
    /\ Extracted
    /\ Len(audio.track) > 0
    /\ ContributedPitches = {}
    /\ features.pitch_mean = 0
    /\ features.pitch_std = 0
    /\ features.pitch_range = 0

---------------------------------------------------------------------------
\* Properties of process_voice and detect_voice

Answered == response.status_code # 0

\* C5: process_voice never raises and returns a success or an error envelope;
\* bytes that librosa.load cannot decode give an error whose message starts
\* with "Invalid audio format: ", any other failure one that starts with
\* "Processing failed: ", and no failure gives a success envelope.
C5_FailuresSurfaceByKind ==
    (Answered /\ coreCalled) =>
        /\ response.status_code = 200
        /\ response.body.status \in {"success", "error"}
        /\ audio.load # "ok" =>
            /\ response.body.status = "error"
            /\ response.body.message[1] = "Invalid audio format: "
        /\ (audio.load = "ok" /\ audio.feature_calls # "ok") =>
            /\ response.body.status = "error"
            /\ response.body.message[1] = "Processing failed: "
        /\ (audio.load # "ok" \/ audio.feature_calls # "ok") =>
            response.body.status # "success"

KeyValid ==
    request.x_api_key.present /\ request.x_api_key.value = "configured-key"

LanguageValid ==
    request.language \in {"Tamil", "English", "Hindi", "Malayalam", "Telugu"}

FormatIsMp3 == request.audioFormat = <<"m", "p", "3">>

FormatIsMp3InAnyCase == Lower(request.audioFormat) = <<"m", "p", "3">>

NotTooLarge == audio.size <= 10 * 1024 * 1024

NotTooSmall == audio.size >= 1024

Rejected(code, message) ==
    /\ ~coreCalled
    /\ response.status_code = code
    /\ response.body.status = "error"
    /\ response.body.message = message

\* The validation order of detect_voice, for a given reading of "the format
\* is mp3".
ValidatedInOrder(formatValid) ==
    Answered =>
        /\ coreCalled <=>
            (KeyValid /\ LanguageValid /\ formatValid /\ request.base64_ok
             /\ NotTooLarge /\ NotTooSmall)
        /\ ~KeyValid => Rejected(401, "Invalid or missing API key")
        /\ (KeyValid /\ ~LanguageValid) =>
            Rejected(400, "Invalid language. Must be one of: Tamil, English, Hindi, Malayalam, Telugu")
        /\ (KeyValid /\ LanguageValid /\ ~formatValid) =>
            Rejected(400, "Invalid audio format. Must be only : mp3")
        /\ (KeyValid /\ LanguageValid /\ formatValid /\ ~request.base64_ok) =>
            Rejected(400, "Invalid Base64 encoding for audio data")
        /\ (KeyValid /\ LanguageValid /\ formatValid /\ request.base64_ok
            /\ ~NotTooLarge) =>
            Rejected(400, "Audio file too large. Maximum size is 10MB")
        /\ (KeyValid /\ LanguageValid /\ formatValid /\ request.base64_ok
            /\ NotTooLarge /\ ~NotTooSmall) =>
            Rejected(400, "Audio file too small. Please provide a valid audio file")

\* C6 as stated: the core is reached only after the checks of the key, the
\* language, the format, the base64 text, the maximum and the minimum size
\* have passed in this order, the format check being that the format is mp3;
\* the first failing check answers 401 (key) or 400 and the core is not
\* reached.
C6_ValidatedInOrderFormatMp3 == ValidatedInOrder(FormatIsMp3)

\* C6 amended: as above, the format check being that the format, put in lower
\* case, is mp3.
C6_ValidatedInOrder == ValidatedInOrder(FormatIsMp3InAnyCase)

\* C6 witness: the core was reached by a request whose format is not the
\* literal mp3.
C6_Witness ==
    /\ Answered
    /\ coreCalled
    /\ request.audioFormat # <<"m", "p", "3">>
    /\ response.status_code = 200

\* C7: a success envelope carries the language of its request, and two runs
\* on the same audio, whatever their languages, agree on classification,
\* confidenceScore and explanation.
C7_LanguageIsPassThrough ==
    /\ (Answered /\ response.body.status = "success") =>
          response.body.language = request.language
    /\ (response.body.status = "success"
        /\ previous.body.status = "success") =>
          /\ response.body.classification = previous.body.classification
          /\ response.body.confidenceScore = previous.body.confidenceScore
          /\ response.body.explanation = previous.body.explanation

\* C7 witness: two successive runs on the audio succeeded under different
\* languages.
C7_Witness ==
    /\ response.body.status = "success"
    /\ previous.body.status = "success"
    /\ response.body.language # previous.body.language
    /\ response.body.language = request.language

====
